---- MODULE Spec2Model ----
(***************************************************************************)
(* Model of src/novel_to_epub.py: sanitize_filename and fetch_novel, and   *)
(* of the paragraph chunker of the translating fetch variant.              *)
(* Text is a sequence of one-character strings; an optional Python value   *)
(* is None (the empty tuple) or Some(v) (the one-element tuple).           *)
(***************************************************************************)
EXTENDS Integers, Sequences, FiniteSets, TLC

VARIABLES start_page, max_pages, end_page, page, novel_title, output_file,
          fs, pc, error, document, probes, loads, seen, appended,
          san, chk

vars == <<start_page, max_pages, end_page, page, novel_title, output_file,
          fs, pc, error, document, probes, loads, seen, appended,
          san, chk>>

\* ---------------------------------------------------------------- bounds
MaxCeil   == 2   \* max_pages ranges over None and 0..MaxCeil
MaxProbes == 3   \* the loop is followed for at most MaxProbes probes

\* ------------------------------------------------------- optional values
None == <<>>
Some(v) == <<v>>
Get(o) == o[1]

\* ------------------------------------------------------------------ text
NL == "\n"
Whitespace == {" ", "\t", NL}
Sep == <<NL, NL>>
TxtExt == <<".", "t", "x", "t">>
EpubExt == <<".", "e", "p", "u", "b">>

IsPrefix(s, t) == Len(s) <= Len(t) /\ SubSeq(t, 1, Len(s)) = s

RECURSIVE Flatten(_)
Flatten(ss) == IF ss = <<>> THEN <<>> ELSE Head(ss) \o Flatten(Tail(ss))

\* sep.join(parts)
RECURSIVE JoinWith(_, _)
JoinWith(parts, sep) ==
  IF parts = <<>> THEN <<>>
  ELSE IF Len(parts) = 1 THEN Head(parts)
  ELSE Head(parts) \o sep \o JoinWith(Tail(parts), sep)

\* index of the first occurrence of pat in s at or after i, 0 when none
RECURSIVE FindFrom(_, _, _)
FindFrom(s, pat, i) ==
  IF i + Len(pat) - 1 > Len(s) THEN 0
  ELSE IF SubSeq(s, i, i + Len(pat) - 1) = pat THEN i
  ELSE FindFrom(s, pat, i + 1)

\* s.split(sep), sep non-empty
RECURSIVE SplitOn(_, _)
SplitOn(s, sep) ==
  LET k == FindFrom(s, sep, 1) IN
  IF k = 0 THEN <<s>>
  ELSE <<SubSeq(s, 1, k - 1)>> \o SplitOn(SubSeq(s, k + Len(sep), Len(s)), sep)

\* s.replace(old, new), old non-empty
RECURSIVE Replace(_, _, _)
Replace(s, old, new) ==
  LET k == FindFrom(s, old, 1) IN
  IF k = 0 THEN s
  ELSE SubSeq(s, 1, k - 1) \o new \o Replace(SubSeq(s, k + Len(old), Len(s)), old, new)

\* bool(s.strip())
StripNonEmpty(s) == \E i \in 1..Len(s) : s[i] \notin Whitespace

\* ----------------------------------------------------- sanitize_filename
Forbidden == {"\\", "/", ":", "*", "?", "\"", "<", ">", "|"}

\* a pattern that deletes the characters instead of replacing them
sanitize_filename_m(name) == SelectSeq(name, LAMBDA c : c \notin Forbidden)

sanitize_filename(name) ==
  [i \in 1..Len(name) |-> IF name[i] \in Forbidden THEN "_" ELSE name[i]]

\* os.path.join(d, f) for a relative f
PathJoin(d, f) ==
  IF d = <<>> THEN f
  ELSE IF d[Len(d)] = "/" THEN d \o f
  ELSE d \o <<"/">> \o f

\* base_url.split('/')[-1]
LastSegment(u) == LET parts == SplitOn(u, <<"/">>) IN parts[Len(parts)]

\* ------------------------------------------------- chapter text (96-103)
\* re.sub(r'[ \t]+$', '', raw, flags=re.M)
RECURSIVE OnlyBlanksToEol(_)
OnlyBlanksToEol(s) ==
  \/ s = <<>>
  \/ Head(s) = NL
  \/ (Head(s) \in {" ", "\t"} /\ OnlyBlanksToEol(Tail(s)))

RECURSIVE StripLineEnds(_)
StripLineEnds(s) ==
  IF s = <<>> THEN <<>>
  ELSE IF Head(s) \in {" ", "\t"} /\ OnlyBlanksToEol(Tail(s))
       THEN StripLineEnds(Tail(s))
       ELSE <<Head(s)>> \o StripLineEnds(Tail(s))

\* re.sub(r'^\s+', '', raw, flags=re.M)
RECURSIVE StripLineStarts(_, _)
StripLineStarts(s, atStart) ==
  IF s = <<>> THEN <<>>
  ELSE IF atStart /\ Head(s) \in Whitespace THEN StripLineStarts(Tail(s), TRUE)
  ELSE <<Head(s)>> \o StripLineStarts(Tail(s), Head(s) = NL)

\* re.sub(r'\n{3,}', '\n\n', raw)
RECURSIVE CollapseNewlines(_, _)
CollapseNewlines(s, run) ==
  IF s = <<>> THEN <<>>
  ELSE IF Head(s) = NL
       THEN (IF run >= 2 THEN <<>> ELSE <<NL>>) \o CollapseNewlines(Tail(s), run + 1)
       ELSE <<Head(s)>> \o CollapseNewlines(Tail(s), 0)

NonEmptyOnly(ps) == SelectSeq(ps, LAMBDA p : p # <<>>)

\* div.ps: p.get_text(strip=True) of each <p>; div.raw: get_text(separator='\n')
ChapterText(div) ==
  LET paras == NonEmptyOnly(div.ps) IN
  IF paras # <<>> THEN JoinWith(paras, Sep)
  ELSE CollapseNewlines(StripLineStarts(StripLineEnds(div.raw), TRUE), 0)

\* ------------------------------------------------------------ parameters
base_url == <<"u", "/", "n">>
output_dir == <<"o">>

\* titles a page's article-title tag may carry (tag.get_text(strip=True))
PageTitles == {<<".", "t", "x", "t", "/">>}

\* article-content divs a page may carry
Divs == {
  [ps |-> << <<"a">>, <<"b">> >>,  raw |-> <<"a", NL, "b">>],
  [ps |-> << <<>> >>,              raw |-> <<" ", "a", " ", NL, NL, NL, " ", "b">>],
  [ps |-> <<>>,                    raw |-> <<>>] }

\* what BeautifulSoup finds in driver.page_source
Pages == [title : {None} \cup {Some(t) : t \in PageTitles},
          div   : {None} \cup {Some(d) : d \in Divs}]

ArtifactPathOf(title) == PathJoin(output_dir, sanitize_filename(title) \o TxtExt)

OldText == <<"z", NL, NL>>

\* the output directory before the run: empty, or holding the artifacts of
\* an earlier run of the same program
InitialFs == { <<>>,
               [p \in {ArtifactPathOf(t) : t \in PageTitles \cup {LastSegment(base_url)}}
                  |-> OldText] }

ProbeStatus == {"200", "404", "500"}

\* the start pages tried: the first index and the default
StartPages == {0, 2}

\* ------------------------------------------------------------------ init
\* lines 34-52
Init ==
  /\ start_page \in StartPages
  /\ max_pages \in {None} \cup {Some(n) : n \in 0..MaxCeil}
  /\ end_page = IF max_pages # None /\ Get(max_pages) # 0
                THEN Some(start_page + Get(max_pages) - 1) ELSE None
  /\ page = start_page
  /\ novel_title = None
  /\ output_file = None
  /\ fs \in InitialFs
  /\ pc = "loop"
  /\ error = None
  /\ document = None
  /\ probes = <<>>
  /\ loads = <<>>
  /\ seen = <<>>
  /\ appended = <<>>
  /\ san = None
  /\ chk = None

\* the state of the function harnesses, idle during a run of fetch_novel
Aux == <<san, chk>>

Config == <<start_page, max_pages, end_page>>
Hist == <<probes, loads, seen, appended>>

\* `if end_page and page > end_page`
CeilingHit == end_page # None /\ Get(end_page) # 0 /\ page > Get(end_page)

\* lines 55-57
ReachedMax ==
  /\ pc = "loop"
  /\ CeilingHit
  /\ pc' = "quit"
  /\ UNCHANGED <<Aux, Config, page, novel_title, output_file, fs, error, document, Hist>>

\* lines 59-65: requests.head raises
ProbeError ==
  /\ pc = "loop"
  /\ ~CeilingHit
  /\ Len(probes) < MaxProbes
  /\ probes' = Append(probes, [idx |-> page, res |-> "exc"])
  /\ pc' = "quit"
  /\ UNCHANGED <<Aux, Config, page, novel_title, output_file, fs, error, document,
                 loads, seen, appended>>

\* a probe that stops on the wrong status
ProbeOutcome_m(status) == IF status = "500" THEN "quit" ELSE "load"

\* a probe that stops on every status but 200
ProbeOutcome_ok(status) == IF status # "200" THEN "quit" ELSE "load"

ProbeOutcome(status) == IF status = "404" THEN "quit" ELSE "load"

\* lines 59-68: requests.head answers with a status
Probe ==
  /\ pc = "loop"
  /\ ~CeilingHit
  /\ Len(probes) < MaxProbes
  /\ \E status \in ProbeStatus :
       /\ probes' = Append(probes, [idx |-> page, res |-> status])
       /\ pc' = ProbeOutcome(status)
  /\ UNCHANGED <<Aux, Config, page, novel_title, output_file, fs, error, document,
                 loads, seen, appended>>

\* line 71: driver.get(url) returns
Load ==
  /\ pc = "load"
  /\ loads' = Append(loads, page)
  /\ pc' = "wait"
  /\ UNCHANGED <<Aux, Config, page, novel_title, output_file, fs, error, document,
                 probes, seen, appended>>

\* line 71: driver.get(url) raises; nothing catches it
LoadRaises ==
  /\ pc = "load"
  /\ loads' = Append(loads, page)
  /\ pc' = "failed"
  /\ error' = Some("WebDriverException")
  /\ UNCHANGED <<Aux, Config, page, novel_title, output_file, fs, document,
                 probes, seen, appended>>

\* lines 73-75: the content region is present
WaitFound ==
  /\ pc = "wait"
  /\ pc' = "parse"
  /\ UNCHANGED <<Aux, Config, page, novel_title, output_file, fs, error, document, Hist>>

\* a skip that forgets `page += 1`
WaitTimeout_m ==
  /\ pc = "wait"
  /\ pc' = "loop"
  /\ UNCHANGED <<Aux, Config, page, novel_title, output_file, fs, error, document,
                 Hist>>

\* lines 76-80: wait.until raises
WaitTimeout ==
  /\ pc = "wait"
  /\ page' = page + 1
  /\ pc' = "loop"
  /\ UNCHANGED <<Aux, Config, novel_title, output_file, fs, error, document, Hist>>

\* a title lookup that ignores the article-title tag
TitleOf_m(pg) == LastSegment(base_url)

\* lines 84-86
TitleOf(pg) == IF pg.title # None THEN Get(pg.title) ELSE LastSegment(base_url)

\* a title assignment without the `is None` guard
SetTitle_m(cur, pg) == Some(TitleOf(pg))

\* line 84, 86
SetTitle(cur, pg) == IF cur = None THEN Some(TitleOf(pg)) ELSE cur

\* lines 87-88
SetOutputFile(curFile, curTitle, pg) ==
  IF curTitle = None THEN Some(ArtifactPathOf(TitleOf(pg))) ELSE curFile

\* the file opened with mode 'w' instead of 'a'
AppendFile_m(f, path, text) ==
  IF path \in DOMAIN f
  THEN [f EXCEPT ![path] = text \o Sep]
  ELSE f @@ (path :> (text \o Sep))

\* lines 105-107: open(path, 'a'); write(text); write('\n\n')
AppendFile(f, path, text) ==
  IF path \in DOMAIN f
  THEN [f EXCEPT ![path] = @ \o text \o Sep]
  ELSE f @@ (path :> (text \o Sep))

\* a content test that also wants a non-empty paragraph
HasContent_m(pg) == pg.div # None /\ NonEmptyOnly(Get(pg.div).ps) # <<>>

\* line 93: `if not content_div` fails
HasContent(pg) == pg.div # None

\* lines 82-111
Process ==
  /\ pc = "parse"
  /\ \E pg \in Pages :
       /\ novel_title' = SetTitle(novel_title, pg)
       /\ output_file' = SetOutputFile(output_file, novel_title, pg)
       /\ seen' = Append(seen, [idx |-> page, title |-> pg.title, div |-> pg.div])
       /\ IF ~HasContent(pg)
          THEN UNCHANGED <<fs, appended>>
          ELSE /\ fs' = AppendFile(fs, Get(output_file'), ChapterText(Get(pg.div)))
               /\ appended' = Append(appended,
                                [idx |-> page, text |-> ChapterText(Get(pg.div))])
  /\ page' = page + 1
  /\ pc' = "loop"
  /\ UNCHANGED <<Aux, Config, error, document, probes, loads>>

\* line 106 alone: open(path, 'a'); write(text), and the file is closed
WriteText(f, path, text) ==
  IF path \in DOMAIN f
  THEN [f EXCEPT ![path] = @ \o text]
  ELSE f @@ (path :> text)

\* lines 82-106: the run is interrupted (KeyboardInterrupt) between the two
\* writes; the with block closes the file and the exception leaves the run
ProcessInterrupted ==
  /\ pc = "parse"
  /\ \E pg \in Pages :
       /\ HasContent(pg)
       /\ novel_title' = SetTitle(novel_title, pg)
       /\ output_file' = SetOutputFile(output_file, novel_title, pg)
       /\ seen' = Append(seen, [idx |-> page, title |-> pg.title, div |-> pg.div])
       /\ fs' = WriteText(fs, Get(output_file'), ChapterText(Get(pg.div)))
  /\ pc' = "failed"
  /\ error' = Some("KeyboardInterrupt")
  /\ UNCHANGED <<Aux, Config, page, document, probes, loads, appended>>

\* line 125
Paragraphs(full_text) == SelectSeq(SplitOn(full_text, Sep), StripNonEmpty)

\* line 126
HtmlBody(paragraphs) ==
  Flatten([i \in 1..Len(paragraphs) |-> <<"<p>">> \o paragraphs[i] \o <<"</p>">>])

\* line 136
EpubPath(path) == Replace(path, TxtExt, EpubExt)

\* a conversion guard that never lets the conversion run
HasArtifact_m(file) == FALSE

\* line 116: `if output_file:`
HasArtifact(file) == file # None

\* lines 113-116: nothing was ever titled, nothing to convert
QuitNoArtifact ==
  /\ pc = "quit"
  /\ ~HasArtifact(output_file)
  /\ pc' = "done"
  /\ UNCHANGED <<Aux, Config, page, novel_title, output_file, fs, error, document, Hist>>

\* lines 113-123: open(output_file, 'r') raises
PackageMissingFile ==
  /\ pc = "quit"
  /\ HasArtifact(output_file)
  /\ Get(output_file) \notin DOMAIN fs
  /\ pc' = "failed"
  /\ error' = Some("FileNotFoundError")
  /\ UNCHANGED <<Aux, Config, page, novel_title, output_file, fs, document, Hist>>

\* lines 113-138
Package ==
  /\ pc = "quit"
  /\ HasArtifact(output_file)
  /\ Get(output_file) \in DOMAIN fs
  /\ LET full_text  == fs[Get(output_file)]
         paragraphs == Paragraphs(full_text)
         epub_path  == EpubPath(Get(output_file))
         html_body  == HtmlBody(paragraphs)
     IN /\ document' = Some([title |-> Get(novel_title), paragraphs |-> paragraphs,
                             content |-> html_body, path |-> epub_path])
        /\ fs' = IF epub_path \in DOMAIN fs
                 THEN [fs EXCEPT ![epub_path] = html_body]
                 ELSE fs @@ (epub_path :> html_body)
  /\ pc' = "done"
  /\ UNCHANGED <<Aux, Config, page, novel_title, output_file, error, Hist>>

Next ==
  \/ ReachedMax
  \/ ProbeError
  \/ Probe
  \/ Load
  \/ LoadRaises
  \/ WaitFound
  \/ WaitTimeout
  \/ Process
  \/ ProcessInterrupted
  \/ QuitNoArtifact
  \/ PackageMissingFile
  \/ Package

Spec == Init /\ [][Next]_vars

\* ================================================================ claims
ProbeIdx == {probes[j].idx : j \in 1..Len(probes)}
LoadIdx == {loads[j] : j \in 1..Len(loads)}
SeenIdx == {seen[j].idx : j \in 1..Len(seen)}
AppendedIdx == {appended[j].idx : j \in 1..Len(appended)}
LoopEnded == pc \in {"quit", "done", "failed"}

\* the text this run has appended, block by block
RunText == Flatten([j \in 1..Len(appended) |-> appended[j].text \o Sep])

\* the artifact as a reader finds it
ArtifactText ==
  IF output_file # None /\ Get(output_file) \in DOMAIN fs
  THEN fs[Get(output_file)] ELSE <<>>

\* the run was cut short inside an append
Interrupted == error = Some("KeyboardInterrupt")

\* C1: a probe answering 404 for index i is the last probe of the run: the
\* loop has ended with the page index still i, page i was never loaded, seen
\* or appended, and no probe or load was issued for an index above i; so a
\* first 404 at the k-th probe leaves exactly k probes.
C1_NotFoundStops ==
  \A j \in 1..Len(probes) :
    probes[j].res = "404" =>
      /\ j = Len(probes)
      /\ LoopEnded
      /\ page = probes[j].idx
      /\ probes[j].idx \notin LoadIdx \cup SeenIdx \cup AppendedIdx
      /\ \A i \in ProbeIdx \cup LoadIdx : i <= probes[j].idx

C1_Witness ==
  /\ pc = "done"
  /\ Len(probes) = 3
  /\ probes[3].res = "404"
  /\ Len(appended) = 2

\* C2: with the ceiling max_pages set to n >= 1, every probe is for an index
\* in start_page .. start_page+n-1 and at most n probes are issued.
C2_CeilingBoundsProbes ==
  (max_pages # None /\ Get(max_pages) >= 1) =>
    /\ Len(probes) <= Get(max_pages)
    /\ \A i \in ProbeIdx : i \in start_page .. (start_page + Get(max_pages) - 1)

\* C3: a step in which the fetch of a probed page fails (the page load does
\* not return, or the content region does not appear) goes back to probing
\* with the index advanced by exactly one and nothing written.
C3_FetchFailureSkips ==
  [][ ((pc = "load" /\ pc' # "wait") \/ (pc = "wait" /\ pc' # "parse"))
        => (pc' = "loop" /\ page' = page + 1 /\ fs' = fs /\ appended' = appended
            /\ error' = None) ]_vars

\* C4: a probe that raises is the last probe of the run, no page load
\* follows it, and the run then ends normally, never as a failure.
C4_ProbeErrorEndsNormally ==
  \A j \in 1..Len(probes) :
    probes[j].res = "exc" =>
      /\ j = Len(probes)
      /\ probes[j].idx \notin LoadIdx
      /\ pc \in {"quit", "done"}
      /\ error = None

\* C5: when a run that was not interrupted has ended, the artifact holds
\* exactly the blocks of the pages that were fetched and extracted, one
\* block per page, in strictly increasing page-index order.
C5_ArtifactIsPagesInOrder ==
  (pc \in {"done", "failed"} /\ ~Interrupted) =>
    /\ ArtifactText = RunText
    /\ \A i, j \in 1..Len(appended) : i < j => appended[i].idx < appended[j].idx
    /\ AppendedIdx = {seen[j].idx : j \in {k \in 1..Len(seen) : seen[k].div # None}}

\* C6: every step leaves the artifact file in place with its old content as
\* a prefix of its new content.
C6_AppendOnly ==
  [][ \A path \in DOMAIN fs :
        (output_file' # None /\ path = Get(output_file'))
          => (path \in DOMAIN fs' /\ IsPrefix(fs[path], fs'[path])) ]_vars

C6_Witness ==
  /\ pc = "done"
  /\ document # None
  /\ Len(appended) = 2
  /\ Len(ArtifactText) > Len(RunText)

\* C7: once novel_title is set, it and output_file keep their values in
\* every later step, and a step that appends writes to no other file.
C7_TitleSetOnce ==
  [][ novel_title # None =>
        /\ novel_title' = novel_title
        /\ output_file # None
        /\ output_file' = output_file
        /\ \A path \in DOMAIN fs' :
             (appended' # appended /\ path # Get(output_file))
               => (path \in DOMAIN fs /\ fs'[path] = fs[path]) ]_vars

C7_Witness ==
  /\ Len(appended) = 2
  /\ seen[2].title # None
  /\ seen[2].title # novel_title
  /\ seen[2].div # None

FirstTitled == CHOOSE j \in 1..Len(seen) :
                 seen[j].title # None /\ \A k \in 1..(j - 1) : seen[k].title = None

\* C8 as stated: the run's title is that of the first processed page that
\* has one, and the fallback only when no processed page has one.
C8_Original ==
  seen # <<>> =>
    IF \E j \in 1..Len(seen) : seen[j].title # None
    THEN novel_title = seen[FirstTitled].title
    ELSE novel_title = Some(LastSegment(base_url))

\* C8 amended: the run's title is decided by the first processed page alone:
\* its title when it has one, else the fallback derived from the base URL;
\* no title is set before a page is processed.
C8_FirstPageDecides ==
  IF seen = <<>> THEN novel_title = None
  ELSE novel_title = IF seen[1].title # None THEN seen[1].title
                     ELSE Some(LastSegment(base_url))

C8_Witness ==
  /\ Len(seen) = 2
  /\ seen[1].title = None
  /\ seen[2].title # None
  /\ novel_title = Some(LastSegment(base_url))

\* C9: at every point of a run that is not interrupted the artifact holds
\* only text appended by this run, and so does the Document made from it.
C9_OnlyThisRun ==
  /\ ~Interrupted => ArtifactText = RunText
  /\ document # None => Get(document).paragraphs = Paragraphs(RunText)

RECURSIVE PageParagraphs(_)
PageParagraphs(pages) ==
  IF pages = <<>> THEN <<>>
  ELSE (IF Head(pages).div = None THEN <<>>
        ELSE NonEmptyOnly(Get(Head(pages).div).ps))
       \o PageParagraphs(Tail(pages))

\* C11: when every appended page yielded a non-empty list of paragraphs, the
\* Document's paragraphs are exactly the pages' paragraphs, in page order
\* and in within-page order.
C11_RoundTrip ==
  (/\ document # None
   /\ \A j \in 1..Len(seen) :
        seen[j].div # None => NonEmptyOnly(Get(seen[j].div).ps) # <<>>)
    => Get(document).paragraphs = PageParagraphs(seen)
\* the path with the extension that ends it changed from .txt to .epub
SwapFinalExt(path) == SubSeq(path, 1, Len(path) - Len(TxtExt)) \o EpubExt

\* C12: the Document is written to the artifact path with only its final
\* '.txt' changed to '.epub'.
C12_EpubNextToArtifact ==
  document # None => Get(document).path = SwapFinalExt(Get(output_file))
\* ================================================= sanitize_filename alone
MaxNameLen == 2   \* names of at most MaxNameLen characters

\* the nine characters of the class, two harmless ones and the replacement
NameChars == Forbidden \cup {"a", ".", "_"}

Names == UNION {[1..n -> NameChars] : n \in 0..MaxNameLen}

\* every variable of fetch_novel, at rest
MainIdle ==
  /\ start_page = 0
  /\ max_pages = None
  /\ end_page = None
  /\ page = 0
  /\ novel_title = None
  /\ output_file = None
  /\ fs = <<>>
  /\ pc = "idle"
  /\ error = None
  /\ document = None
  /\ probes = <<>>
  /\ loads = <<>>
  /\ seen = <<>>
  /\ appended = <<>>

SanInit ==
  /\ MainIdle
  /\ chk = None
  /\ san \in {[name |-> n, once |-> None, twice |-> None] : n \in Names}

\* sanitize_filename(name)
SanitizeName ==
  /\ san # None
  /\ san.once = None
  /\ san' = [san EXCEPT !.once = Some(sanitize_filename(san.name))]
  /\ UNCHANGED <<Config, page, novel_title, output_file, fs, pc, error, document,
                 Hist, chk>>

\* sanitize_filename(sanitize_filename(name))
SanitizeAgain ==
  /\ san # None
  /\ san.once # None
  /\ san.twice = None
  /\ san' = [san EXCEPT !.twice = Some(sanitize_filename(Get(san.once)))]
  /\ UNCHANGED <<Config, page, novel_title, output_file, fs, pc, error, document,
                 Hist, chk>>

SanNext == SanitizeName \/ SanitizeAgain

SanSpec == SanInit /\ [][SanNext]_vars

\* C13: the result has the length of the name, holds '_' wherever the name
\* holds one of the nine characters and the name's own character elsewhere,
\* holds none of the nine, and is left unchanged by a second application.
C13_Sanitize ==
  /\ (san # None /\ san.once # None) =>
       LET name == san.name
           out  == Get(san.once)
       IN /\ Len(out) = Len(name)
          /\ \A i \in 1..Len(name) :
               IF name[i] \in {"\\", "/", ":", "*", "?", "\"", "<", ">", "|"}
               THEN out[i] = "_" ELSE out[i] = name[i]
          /\ \A i \in 1..Len(out) :
               out[i] \notin {"\\", "/", ":", "*", "?", "\"", "<", ">", "|"}
  /\ (san # None /\ san.twice # None) => san.twice = san.once

C13_Witness ==
  /\ san # None
  /\ san.twice # None
  /\ Len(san.name) = 2
  /\ san.name[1] = "|"
  /\ san.name[2] = "a"
\* ========================================================= chunker (4.2)
MaxParas    == 3   \* at most MaxParas paragraphs in one call
MaxChunkLen == 5   \* the configured maximum ranges over 1..MaxChunkLen

ParaPool == {<<"a">>, <<"b", "b">>, <<"c", "c", "c", "c">>}

ParaSeqs == UNION {[1..n -> ParaPool] : n \in 0..MaxParas}

ChunkInit ==
  /\ MainIdle
  /\ san = None
  /\ chk \in {[paragraphs |-> ps, max |-> m, i |-> 1, buffer |-> <<>>,
               chunks |-> <<>>, out |-> <<>>, stage |-> "walk"] :
                 ps \in ParaSeqs, m \in 1..MaxChunkLen}

\* the buffer with one more paragraph joined on
Joined(buffer, p) == IF buffer = <<>> THEN p ELSE buffer \o Sep \o p

\* a size test that forgets the separator
Fits_m(buffer, p, max) == Len(buffer) + Len(p) <= max

\* step 2: appending p keeps the total length within the maximum
Fits(buffer, p, max) == Len(Joined(buffer, p)) <= max

\* steps 2 and 3: a completed Chunk; an empty buffer completes nothing
Flush(chunks, buffer) == IF buffer = <<>> THEN chunks ELSE Append(chunks, buffer)

\* step 2, for the paragraph under the cursor
ChunkWalk ==
  /\ chk # None
  /\ chk.stage = "walk"
  /\ chk.i <= Len(chk.paragraphs)
  /\ LET p == chk.paragraphs[chk.i] IN
       chk' = IF Fits(chk.buffer, p, chk.max)
              THEN [chk EXCEPT !.buffer = Joined(chk.buffer, p), !.i = @ + 1]
              ELSE [chk EXCEPT !.chunks = Flush(chk.chunks, chk.buffer),
                               !.buffer = p, !.i = @ + 1]
  /\ UNCHANGED <<Config, page, novel_title, output_file, fs, pc, error, document,
                 Hist, san>>

\* step 3
ChunkFinish ==
  /\ chk # None
  /\ chk.stage = "walk"
  /\ chk.i > Len(chk.paragraphs)
  /\ chk' = [chk EXCEPT !.chunks = Flush(chk.chunks, chk.buffer),
                        !.buffer = <<>>, !.stage = "translate"]
  /\ UNCHANGED <<Config, page, novel_title, output_file, fs, pc, error, document,
                 Hist, san>>

\* the translation capability, as a marker around its input
Translated(text) == <<"[">> \o text \o <<"]">>

\* step 4: one Chunk is translated, or kept verbatim when translation fails
ChunkTranslate ==
  /\ chk # None
  /\ chk.stage = "translate"
  /\ Len(chk.out) < Len(chk.chunks)
  /\ \E ok \in BOOLEAN :
       LET c == chk.chunks[Len(chk.out) + 1] IN
         chk' = [chk EXCEPT !.out = Append(@, IF ok THEN Translated(c) ELSE c)]
  /\ UNCHANGED <<Config, page, novel_title, output_file, fs, pc, error, document,
                 Hist, san>>

\* step 5
ChunkReassemble ==
  /\ chk # None
  /\ chk.stage = "translate"
  /\ Len(chk.out) = Len(chk.chunks)
  /\ chk' = [chk EXCEPT !.stage = "done", !.buffer = JoinWith(chk.out, Sep)]
  /\ UNCHANGED <<Config, page, novel_title, output_file, fs, pc, error, document,
                 Hist, san>>

ChunkNext == ChunkWalk \/ ChunkFinish \/ ChunkTranslate \/ ChunkReassemble

ChunkSpec == ChunkInit /\ [][ChunkNext]_vars

\* the paragraphs of the completed Chunks, in order
ChunkParagraphs(chunks) ==
  Flatten([j \in 1..Len(chunks) |-> SplitOn(chunks[j], Sep)])

\* C14: every completed Chunk is within the maximum unless it is a single
\* paragraph that alone exceeds it; the Chunks hold whole paragraphs of the
\* input, in order; once the walk is over they hold all of them.
C14_Chunks ==
  chk # None =>
    /\ \A j \in 1..Len(chk.chunks) :
         \/ Len(chk.chunks[j]) <= chk.max
         \/ (Len(SplitOn(chk.chunks[j], Sep)) = 1 /\ Len(chk.chunks[j]) > chk.max)
    /\ IsPrefix(ChunkParagraphs(chk.chunks), chk.paragraphs)
    /\ chk.stage # "walk" => ChunkParagraphs(chk.chunks) = chk.paragraphs

C14_Witness ==
  /\ chk # None
  /\ chk.stage = "done"
  /\ chk.max = 3
  /\ chk.paragraphs = << <<"a">>, <<"c", "c", "c", "c">>, <<"b", "b">> >>
  /\ chk.chunks = << <<"a">>, <<"c", "c", "c", "c">>, <<"b", "b">> >>
LastProbe == probes[Len(probes)]

\* C15: the j-th probe of a run is for index start_page + j - 1; every load
\* is for an index whose probe answered something other than not-found, and
\* no index is loaded twice; a step that loads or appends does so for the
\* index of the latest probe.
C15_InSequence ==
  /\ [](\A j \in 1..Len(probes) : probes[j].idx = start_page + j - 1)
  /\ [](\A k \in 1..Len(loads) :
          /\ \E j \in 1..Len(probes) :
               probes[j].idx = loads[k] /\ probes[j].res \notin {"404", "exc"}
          /\ \A m \in 1..(k - 1) : loads[m] < loads[k])
  /\ [][ /\ loads' # loads =>
              (probes # <<>> /\ loads'[Len(loads')] = LastProbe.idx)
         /\ appended' # appended =>
              (/\ probes # <<>>
               /\ appended'[Len(appended')].idx = LastProbe.idx
               /\ LastProbe.idx \in LoadIdx) ]_vars

C15_Witness ==
  /\ Len(probes) = 3
  /\ Len(loads) = 3
  /\ Len(appended) = 1
  /\ appended[1].idx = start_page + 2
  /\ pc = "loop"
\* the page handled by the step, when the step handled one to its end
Handled == seen' # seen /\ pc' = "loop"

FileText(f, path) == IF path \in DOMAIN f THEN f[path] ELSE <<>>

\* C16 as stated: a page whose extraction yields no paragraph has nothing
\* appended for it.
C16_Original ==
  \A j \in 1..Len(seen) :
    (seen[j].div = None \/ NonEmptyOnly(Get(seen[j].div).ps) = <<>>)
      => seen[j].idx \notin AppendedIdx

\* C16 amended: a page without a content region has nothing appended and
\* the run goes on with the next index; a page with a content region always
\* has one block appended, text then separator: its paragraphs joined when
\* it has a non-empty paragraph, else its cleaned raw text, which may be
\* empty.
C16_SkipOnlyWithoutRegion ==
  [][ Handled =>
        LET pg   == seen'[Len(seen')]
            path == Get(output_file')
        IN /\ page' = page + 1
           /\ IF pg.div = None
              THEN fs' = fs /\ appended' = appended
              ELSE /\ Len(appended') = Len(appended) + 1
                   /\ LET blk == appended'[Len(appended')] IN
                        /\ blk.idx = page
                        /\ FileText(fs', path) = FileText(fs, path) \o blk.text \o Sep
                        /\ NonEmptyOnly(Get(pg.div).ps) # <<>>
                             => blk.text = JoinWith(NonEmptyOnly(Get(pg.div).ps), Sep)
                        /\ (Get(pg.div).ps = <<>> /\ Get(pg.div).raw = <<>>)
                             => blk.text = <<>> ]_vars

C16_Witness ==
  /\ Len(seen) = 2
  /\ pc = "loop"
  /\ seen[1].div = None
  /\ seen[2].div = Some([ps |-> <<>>, raw |-> <<>>])
  /\ Len(appended) = 1
  /\ ArtifactText = Sep
\* C17 as stated: a probe answering an error status other than not-found
\* is the last probe of the run and its page is not loaded.
C17_Original ==
  \A j \in 1..Len(probes) :
    probes[j].res = "500" =>
      (j = Len(probes) /\ probes[j].idx \notin LoadIdx /\ LoopEnded)

\* C17 amended: only a 404 answer or a raised exception ends the sequence
\* at the probe; after any other answer, error statuses included, the page
\* load for that index is the next step.
C17_OnlyNotFoundStops ==
  /\ [](\A j \in 1..Len(probes) :
          probes[j].res \notin {"404", "exc"} =>
            \/ (j = Len(probes) /\ pc = "load")
            \/ probes[j].idx \in LoadIdx)
  /\ [][ (pc = "loop" /\ pc' = "quit" /\ probes' # probes)
           => probes'[Len(probes')].res \in {"404", "exc"} ]_vars

C17_Witness ==
  /\ Len(probes) = 2
  /\ probes[1].res = "500"
  /\ probes[1].idx \in AppendedIdx
\* C18: in every state a crash can leave behind, the artifact is what the
\* file held before the run followed by whole blocks of this run, each a
\* page's text and its separator.
C18_WholeBlocksOnly ==
  \/ ArtifactText = RunText
  \/ ArtifactText = OldText \o RunText
\* C19: with a ceiling of n >= 1 pages set, a run whose index has passed
\* start_page + n - 1 leaves the loop at its next step, so every such run
\* reaches a terminal state.
C19_CeilingEndsLoop ==
  [][ (/\ pc = "loop"
       /\ max_pages # None
       /\ Get(max_pages) >= 1
       /\ page >= start_page + Get(max_pages))
        => pc' = "quit" ]_vars

\* C20: when the loop has ended with the artifact path set, an append of
\* this run has created the artifact, and the packaging step never fails
\* for a missing file.
C20_ArtifactBeforePackaging ==
  /\ (pc \in {"quit", "done"} /\ output_file # None) =>
       (appended # <<>> /\ Get(output_file) \in DOMAIN fs)
  /\ error # Some("FileNotFoundError")
====
